---- MODULE Spec2Model ----
(***************************************************************************)
(* A model of the training driver src/train.py (train_model, save_model,   *)
(* eval_model) of mipnerf-pytorch.                                         *)
(*                                                                         *)
(* One process at a time runs train_model on one log directory; a run ends *)
(* by exhausting its steps ("done") or by a failure at any point           *)
(* ("aborted"), and another run on the same directory may follow it.       *)
(* Model parameters and optimizer state are abstracted to the number of    *)
(* optimizer updates they result from; the files of the log directory      *)
(* keep what the code writes into them.                                    *)
(***************************************************************************)
EXTENDS Naturals, Integers, Sequences, FiniteSets

\* Bounds of the model.
MaxSteps == 3
MaxEvery == 2
MaxPoses == 2
MaxRuns == 2
MaxLevels == 3
MaxPsnr == 2

Steps == 0..(MaxSteps - 1)

VARIABLES
    cfg,                \* config: max_steps, save_every, render_every, do_eval, n_poses
    continue_training,  \* config.continue_training of the current run
    runs,               \* number of runs of train_model started on log_dir
    pc,                 \* position of the running process
    it,                 \* next value of range(start_step, max_steps)
    step,               \* loop variable
    start_step,
    params,             \* model parameters: number of updates applied
    optim,              \* optimizer state: number of updates made
    sched,              \* scheduler: number of scheduler.step() calls
    mode,               \* model.training: "train" or "eval"
    dataPos,            \* batches consumed from the train iterator
    evalPos,            \* batches consumed from the eval iterator
    model_info,         \* save_model's local dict
    rgb_frames,         \* number of images rendered in this RENDERING
    img_cnt,
    loss_val,           \* the loss of the step (line 70)
    psnr,               \* the per-level PSNR array (lines 70, 76, 89)
    latest,             \* <log_dir>/model.pt
    snaps,              \* <log_dir>/model_<step>.pt
    renders,            \* <log_dir>/step_<step>/
    logDir,             \* <log_dir> exists
    trainDir,           \* <log_dir>/train exists
    log,                \* scalar events under <log_dir>/train
    didSave,            \* history: SAVING completed in this iteration
    didRender,          \* history: RENDERING completed in this iteration
    lastSnap,           \* history: step of the last snapshot written, -1 if none
    latestEver,         \* history: model.pt was once written completely
    lastArgs,           \* history: arguments of the last completed save to model.pt
    evalEntry,          \* history: the state eval_model was last entered in
    ops,                \* history: the operations of this iteration, in order
    iters,              \* history: iterations started in this run
    prevRun             \* history: the log a fresh previous run reached DONE with

vars == <<cfg, continue_training, runs, pc, it, step, start_step, params, optim,
          sched, mode, dataPos, evalPos, model_info, rgb_frames, img_cnt,
          loss_val, psnr,
          latest, snaps, renders, logDir, trainDir, log,
          didSave, didRender, lastSnap, latestEver, lastArgs, evalEntry,
          ops, iters, prevRun>>

procVars == <<it, step, start_step, params, optim, sched, mode, dataPos, evalPos,
              model_info, rgb_frames, img_cnt, loss_val, psnr>>
fileVars == <<latest, snaps, renders, logDir, trainDir, log>>
histRest == <<didSave, didRender, lastSnap, latestEver, lastArgs, evalEntry,
              iters, prevRun>>
histVars == <<histRest, ops>>

Configs == [max_steps : 0..MaxSteps, save_every : 1..MaxEvery,
            render_every : 1..MaxEvery, do_eval : BOOLEAN, n_poses : 1..MaxPoses]

NoFile == [kind |-> "absent", state_dict |-> 0, optimizer |-> 0, step |-> 0]
PartialFile == [kind |-> "partial", state_dict |-> 0, optimizer |-> 0, step |-> 0]
NoRender == [dir |-> FALSE, images |-> {}, video |-> FALSE]
NoArgs == [state_dict |-> 0, optimizer |-> 0, step |-> -1]
NoEntry == [mode |-> "none", evalPos |-> 0, params |-> 0, optim |-> 0, sched |-> 0,
            step |-> 0]

\* save_model line 115: the dict that is serialized.
ModelInfo(m, o, s) == [kind |-> "full", state_dict |-> m, optimizer |-> o, step |-> s]

Event(tag, s, v) == [tag |-> tag, step |-> s, val |-> v]

Op(name, i) == <<name, i>>

NoPsnr == << >>
NoPrevRun == [fresh_done |-> FALSE, log |-> << >>]

RECURSIVE SumSeq(_)
SumSeq(a) == IF a = << >> THEN 0 ELSE Head(a) + SumSeq(Tail(a))

\* float(x) of a scalar: the value x, kept as the fraction x/1.
Scalar(x) == [num |-> x, den |-> 1]

\* float(np.mean(a)): the sum over the count, kept as a fraction; 0/0 is
\* the nan of an empty array.
Mean(a) == [num |-> SumSeq(a), den |-> Len(a)]

\* psnr[:-1] and psnr[-1].
AllButLast(a) == SubSeq(a, 1, Len(a) - 1)
LastOf(a) == a[Len(a)]

\* The loss NeRFLoss returns for the model's output on batch b when the
\* parameters result from p updates: a value that identifies (p, b).
LossOf(p, b) == p * (MaxSteps + 1) + b

\* The per-level PSNR array of the same forward pass, coarse levels first.
PsnrOf(p, b) == [l \in 1..MaxLevels |-> LossOf(p, b) + l]

\* MipLRDecay.get_last_lr after n calls of step(): the exponent n of the decay.
LrOf(n) == n

Init ==
    /\ cfg \in Configs
    /\ continue_training = FALSE
    /\ runs = 0
    /\ pc = "idle"
    /\ it = 0 /\ step = 0 /\ start_step = 0
    /\ params = 0 /\ optim = 0 /\ sched = 0
    /\ mode = "train"
    /\ dataPos = 0 /\ evalPos = 0
    /\ model_info = NoFile
    /\ rgb_frames = 0 /\ img_cnt = 0
    /\ loss_val = 0 /\ psnr = NoPsnr
    /\ latest = NoFile
    /\ snaps = [s \in Steps |-> NoFile]
    /\ renders = [s \in Steps |-> NoRender]
    /\ logDir = FALSE /\ trainDir = FALSE
    /\ log = <<>>
    /\ didSave = FALSE /\ didRender = FALSE
    /\ lastSnap = -1
    /\ latestEver = FALSE
    /\ lastArgs = NoArgs
    /\ evalEntry = NoEntry
    /\ ops = << >> /\ iters = 0
    /\ prevRun = NoPrevRun

\* The state of a process that has just been started: lines 16-47.
Fresh ==
    /\ it' = 0 /\ step' = 0 /\ start_step' = 0
    /\ params' = 0 /\ optim' = 0 /\ sched' = 0
    /\ mode' = "train"
    /\ dataPos' = 0 /\ evalPos' = 0
    /\ model_info' = NoFile
    /\ rgb_frames' = 0 /\ img_cnt' = 0
    /\ loss_val' = 0 /\ psnr' = NoPsnr
    /\ didSave' = FALSE /\ didRender' = FALSE
    /\ evalEntry' = NoEntry
    /\ ops' = << >> /\ iters' = 0

\* train_model is called: lines 16-47.
Start ==
    /\ pc \in {"idle", "done", "aborted"}
    /\ runs < MaxRuns
    /\ runs' = runs + 1
    /\ \E c \in BOOLEAN : continue_training' = c
    /\ Fresh
    /\ prevRun' = IF pc = "done" /\ ~continue_training
                  THEN [fresh_done |-> TRUE, log |-> log]
                  ELSE NoPrevRun
    /\ pc' = "load"
    /\ UNCHANGED <<cfg, lastSnap, latestEver, lastArgs>>
    /\ UNCHANGED fileVars

\* A resume that starts at the step after the saved one.
LoadedStepNext(f) == f.step + 1

\* The keys the resume path reads from the loaded dict: lines 50-52.
LoadedParams(f) == f.state_dict
LoadedOptim(f) == f.optimizer
LoadedStep(f) == f.step

\* The files after makedirs and rmtree of lines 59-60, were they to run
\* before the load.
LoadClearsLog ==
    /\ logDir' = TRUE /\ trainDir' = TRUE /\ log' = <<>>
    /\ UNCHANGED <<latest, snaps, renders>>

\* Lines 48-53 only read model.pt: no file or directory is touched.
LoadFiles == UNCHANGED fileVars

\* A resume that is also made whenever model.pt is there.
ResumeIfPresent == continue_training \/ latest.kind = "full"

\* Line 48: the checkpoint is loaded only when config.continue_training is
\* set.
Resuming == continue_training

\* Lines 48-53: torch.load raises when model.pt is missing or truncated.
Load ==
    /\ pc = "load"
    /\ \/ /\ ~Resuming
          /\ pc' = "setup"
          /\ UNCHANGED <<params, optim, start_step>>
       \/ /\ Resuming
          /\ latest.kind # "full"
          /\ pc' = "aborted"
          /\ UNCHANGED <<params, optim, start_step>>
       \/ /\ Resuming
          /\ latest.kind = "full"
          /\ params' = LoadedParams(latest)
          /\ optim' = LoadedOptim(latest)
          /\ start_step' = LoadedStep(latest)
          /\ pc' = "setup"
    /\ UNCHANGED <<cfg, continue_training, runs, loss_val, psnr,
                   it, step, sched, mode, dataPos,
                   evalPos, model_info, rgb_frames, img_cnt>>
    /\ LoadFiles
    /\ UNCHANGED histVars

\* Lines 55-61: new scheduler, model.train(), makedirs, rmtree, SummaryWriter;
\* line 63 creates range(start_step, max_steps).
Setup ==
    /\ pc = "setup"
    /\ sched' = 0
    /\ mode' = "train"
    /\ logDir' = TRUE
    /\ trainDir' = TRUE
    /\ log' = <<>>
    /\ it' = start_step
    /\ pc' = "loop"
    /\ UNCHANGED <<cfg, continue_training, runs, loss_val, psnr,
                   step, start_step, params, optim,
                   dataPos, evalPos, model_info, rgb_frames, img_cnt,
                   latest, snaps, renders>>
    /\ UNCHANGED histVars

\* A range that includes its upper end.
LoopContinuesIncl == it <= cfg.max_steps

\* Line 63: range(start_step, config.max_steps) yields the next step while
\* it is below max_steps.
LoopContinues == it < cfg.max_steps

\* Line 63: the for statement takes the next step, or the loop ends.
LoopHead ==
    /\ pc = "loop"
    /\ \/ /\ LoopContinues
          /\ step' = it
          /\ it' = it + 1
          /\ didSave' = FALSE
          /\ didRender' = FALSE
          /\ ops' = << >>
          /\ iters' = iters + 1
          /\ pc' = "fetch"
       \/ /\ ~LoopContinues
          /\ pc' = "done"
          /\ UNCHANGED <<step, it, didSave, didRender, ops, iters>>
    /\ UNCHANGED <<cfg, continue_training, runs, loss_val, psnr,
                   start_step, params, optim, sched,
                   mode, dataPos, evalPos, model_info, rgb_frames, img_cnt,
                   lastSnap, latestEver, lastArgs, evalEntry, prevRun>>
    /\ UNCHANGED fileVars

\* The mode after line 64 is removed: the mode is left as it is.
KeepMode(m) == m

\* Line 64: model.train().
TrainMode(m) == "train"

\* Lines 64-65: model.train(); next(data).
Fetch ==
    /\ pc = "fetch"
    /\ mode' = TrainMode(mode)
    /\ dataPos' = dataPos + 1
    /\ pc' = "forward"
    /\ UNCHANGED <<cfg, continue_training, runs, loss_val, psnr,
                   it, step, start_step, params, optim,
                   sched, evalPos, model_info, rgb_frames, img_cnt>>
    /\ UNCHANGED fileVars
    /\ ops' = Append(ops, Op("fetch", 0))
    /\ UNCHANGED histRest

\* The calls with the gradients cleared after they are computed.
BackwardThenZero ==
    << Op("forward", 0), Op("loss", 0), Op("backward", 0), Op("zero_grad", 0) >>

\* Lines 66, 70, 71, 72, in that order.
ForwardBackwardOps ==
    << Op("forward", 0), Op("loss", 0), Op("zero_grad", 0), Op("backward", 0) >>

\* Lines 66-72: forward pass, loss, zero_grad, backward.
ForwardBackward ==
    /\ pc = "forward"
    /\ loss_val' = LossOf(params, dataPos)
    /\ psnr' = PsnrOf(params, dataPos)
    /\ pc' = "optstep"
    /\ UNCHANGED <<cfg, continue_training, runs, it, step, start_step, params, optim,
                   sched, mode, dataPos, evalPos, model_info, rgb_frames, img_cnt>>
    /\ UNCHANGED fileVars
    /\ ops' = ops \o ForwardBackwardOps
    /\ UNCHANGED histRest

\* Line 73: optimizer.step().
OptimizerStep ==
    /\ pc = "optstep"
    /\ params' = params + 1
    /\ optim' = optim + 1
    /\ pc' = "schedstep"
    /\ UNCHANGED <<cfg, continue_training, runs, loss_val, psnr,
                   it, step, start_step, sched, mode,
                   dataPos, evalPos, model_info, rgb_frames, img_cnt>>
    /\ UNCHANGED fileVars
    /\ ops' = Append(ops, Op("optimizer_step", 0))
    /\ UNCHANGED histRest

\* Line 74: scheduler.step().
SchedulerStep ==
    /\ pc = "schedstep"
    /\ sched' = sched + 1
    /\ pc' = "log"
    /\ UNCHANGED <<cfg, continue_training, runs, loss_val, psnr,
                   it, step, start_step, params, optim,
                   mode, dataPos, evalPos, model_info, rgb_frames, img_cnt>>
    /\ UNCHANGED fileVars
    /\ ops' = Append(ops, Op("scheduler_step", 0))
    /\ UNCHANGED histRest

\* The train scalars without train/lr.
TrainEventsFour(s, l, p, lr) ==
    << Event("train/loss", s, Scalar(l)),
       Event("train/coarse_psnr", s, Mean(AllButLast(p))),
       Event("train/fine_psnr", s, Scalar(LastOf(p))),
       Event("train/avg_psnr", s, Mean(p)) >>

\* The train scalars keyed by a constant step.
TrainEventsStepZero(s, l, p, lr) ==
    << Event("train/loss", 0, Scalar(l)),
       Event("train/coarse_psnr", 0, Mean(AllButLast(p))),
       Event("train/fine_psnr", 0, Scalar(LastOf(p))),
       Event("train/avg_psnr", 0, Mean(p)),
       Event("train/lr", 0, Scalar(lr)) >>

\* The mean PSNR taken as the average of the coarse mean and the fine
\* value.
AvgOfAverages(p) ==
    [num |-> SumSeq(AllButLast(p)) + LastOf(p) * (Len(p) - 1),
     den |-> 2 * (Len(p) - 1)]

\* Line 80: np.mean over the whole array.
AvgPsnr(p) == Mean(p)

\* Lines 76-81: the five train scalars of the step.
TrainEvents(s, l, p, lr) ==
    << Event("train/loss", s, Scalar(l)),
       Event("train/coarse_psnr", s, Mean(AllButLast(p))),
       Event("train/fine_psnr", s, Scalar(LastOf(p))),
       Event("train/avg_psnr", s, AvgPsnr(p)),
       Event("train/lr", s, Scalar(lr)) >>

LogTrain ==
    /\ pc = "log"
    /\ log' = log \o TrainEvents(step, loss_val, psnr, LrOf(sched))
    /\ pc' = "savecheck"
    /\ UNCHANGED <<cfg, continue_training, runs>>
    /\ UNCHANGED procVars
    /\ UNCHANGED <<latest, snaps, renders, logDir, trainDir>>
    /\ ops' = Append(ops, Op("log_train", 0))
    /\ UNCHANGED histRest

\* A save condition that skips step 0.
SaveDueSkipZero(s) == s > 0 /\ s % cfg.save_every = 0

\* Line 83.
SaveDue(s) == s % cfg.save_every = 0

\* Line 95.
RenderDue(s) == s % cfg.render_every = 0

SaveCheck ==
    /\ pc = "savecheck"
    /\ \/ /\ SaveDue(step)
          /\ pc' = "save1"
       \/ /\ ~SaveDue(step)
          /\ pc' = "rendercheck"
    /\ UNCHANGED <<cfg, continue_training, runs>>
    /\ UNCHANGED procVars
    /\ UNCHANGED fileVars
    /\ UNCHANGED histVars

\* Line 84, save_model lines 115-116: torch.save opens model_<step>.pt for
\* writing, which truncates it.
SnapOpen ==
    /\ pc = "save1"
    /\ model_info' = ModelInfo(params, optim, step)
    /\ snaps' = [snaps EXCEPT ![step] = PartialFile]
    /\ pc' = "save1w"
    /\ UNCHANGED <<cfg, continue_training, runs, loss_val, psnr,
                   it, step, start_step, params, optim,
                   sched, mode, dataPos, evalPos, rgb_frames, img_cnt>>
    /\ UNCHANGED <<latest, renders, logDir, trainDir, log>>
    /\ UNCHANGED histVars

\* Line 116: torch.save completes on model_<step>.pt.
SnapWrite ==
    /\ pc = "save1w"
    /\ snaps' = [snaps EXCEPT ![step] = model_info]
    /\ lastSnap' = model_info.step
    /\ pc' = "save2"
    /\ UNCHANGED <<cfg, continue_training, runs>>
    /\ UNCHANGED procVars
    /\ UNCHANGED <<latest, renders, logDir, trainDir, log>>
    /\ ops' = Append(ops, Op("save_snapshot", 0))
    /\ UNCHANGED <<didSave, didRender, latestEver, lastArgs, evalEntry, iters, prevRun>>

\* A second call that is given the next step to run.
LatestStepNext(s) == s + 1

\* The step the second save_model call of line 85 is given.
LatestStep(s) == s

\* Line 85, save_model lines 115-116: torch.save opens model.pt for writing.
LatestOpen ==
    /\ pc = "save2"
    /\ model_info' = ModelInfo(params, optim, LatestStep(step))
    /\ latest' = PartialFile
    /\ pc' = "save2w"
    /\ UNCHANGED <<cfg, continue_training, runs, loss_val, psnr,
                   it, step, start_step, params, optim,
                   sched, mode, dataPos, evalPos, rgb_frames, img_cnt>>
    /\ UNCHANGED <<snaps, renders, logDir, trainDir, log>>
    /\ UNCHANGED histVars

\* An evaluation that does not look at eval_data.
EvalAlways == TRUE

\* Line 86: eval_data is the iterator of line 23 when config.do_eval is set
\* and None (line 21) otherwise.
EvalConfigured == cfg.do_eval

\* Line 116: torch.save completes on model.pt; line 86 follows.
LatestWrite ==
    /\ pc = "save2w"
    /\ latest' = model_info
    /\ latestEver' = TRUE
    /\ lastArgs' = [state_dict |-> params, optimizer |-> optim, step |-> step]
    /\ didSave' = TRUE
    /\ \/ /\ EvalConfigured
          /\ pc' = "eval"
       \/ /\ ~EvalConfigured
          /\ pc' = "rendercheck"
    /\ UNCHANGED <<cfg, continue_training, runs>>
    /\ UNCHANGED procVars
    /\ UNCHANGED <<snaps, renders, logDir, trainDir, log>>
    /\ ops' = Append(ops, Op("save_latest", 0))
    /\ UNCHANGED <<didRender, lastSnap, evalEntry, iters, prevRun>>

\* eval_model line 119: model.eval().
EvalEnter ==
    /\ pc = "eval"
    /\ mode' = "eval"
    /\ evalEntry' = [mode |-> mode, evalPos |-> evalPos, params |-> params,
                     optim |-> optim, sched |-> sched, step |-> step]
    /\ pc' = "eval_fwd"
    /\ UNCHANGED <<cfg, continue_training, runs, loss_val, psnr,
                   it, step, start_step, params, optim,
                   sched, dataPos, evalPos, model_info, rgb_frames, img_cnt>>
    /\ UNCHANGED fileVars
    /\ UNCHANGED <<didSave, didRender, lastSnap, latestEver, lastArgs, ops, iters,
                   prevRun>>

\* eval_model lines 120-123: next(data) and the forward pass under no_grad.
EvalForward ==
    /\ pc = "eval_fwd"
    /\ evalPos' = evalPos + 1
    /\ pc' = "eval_ret"
    /\ UNCHANGED <<cfg, continue_training, runs, loss_val, psnr,
                   it, step, start_step, params, optim,
                   sched, mode, dataPos, model_info, rgb_frames, img_cnt>>
    /\ UNCHANGED fileVars
    /\ UNCHANGED histVars

\* The mode eval_model would leave were it to restore the mode it was
\* entered in.
EvalExitRestore(m) == evalEntry.mode

\* eval_model line 124: model.train().
EvalExitMode(m) == "train"

\* eval_model lines 124-125: model.train() and the return.
EvalReturn ==
    /\ pc = "eval_ret"
    /\ mode' = EvalExitMode(mode)
    /\ psnr' = PsnrOf(params, evalPos)
    /\ pc' = "eval_log"
    /\ UNCHANGED <<cfg, continue_training, runs, loss_val,
                   it, step, start_step, params, optim,
                   sched, dataPos, evalPos, model_info, rgb_frames, img_cnt>>
    /\ UNCHANGED fileVars
    /\ ops' = Append(ops, Op("eval", 0))
    /\ UNCHANGED histRest

\* Lines 90-93: the three eval scalars of the step.
EvalEvents(s, p) ==
    << Event("eval/coarse_psnr", s, Mean(AllButLast(p))),
       Event("eval/fine_psnr", s, Scalar(LastOf(p))),
       Event("eval/avg_psnr", s, Mean(p)) >>

LogEval ==
    /\ pc = "eval_log"
    /\ log' = log \o EvalEvents(step, psnr)
    /\ pc' = "rendercheck"
    /\ UNCHANGED <<cfg, continue_training, runs>>
    /\ UNCHANGED procVars
    /\ UNCHANGED <<latest, snaps, renders, logDir, trainDir>>
    /\ ops' = Append(ops, Op("log_eval", 0))
    /\ UNCHANGED histRest

RenderCheck ==
    /\ pc = "rendercheck"
    /\ \/ /\ RenderDue(step)
          /\ pc' = "render"
       \/ /\ ~RenderDue(step)
          /\ pc' = "iterend"
    /\ UNCHANGED <<cfg, continue_training, runs>>
    /\ UNCHANGED procVars
    /\ UNCHANGED fileVars
    /\ UNCHANGED histVars

\* Lines 97-99: model.eval(); rgb_frames = [].
RenderEnter ==
    /\ pc = "render"
    /\ mode' = "eval"
    /\ rgb_frames' = 0
    /\ pc' = "render_loop"
    /\ UNCHANGED <<cfg, continue_training, runs, loss_val, psnr,
                   it, step, start_step, params, optim,
                   sched, dataPos, evalPos, model_info, img_cnt>>
    /\ UNCHANGED fileVars
    /\ UNCHANGED histVars

\* A render loop that is left after its first frame.
AnyRendered == rgb_frames >= 1

\* Line 100: the for loop over render_data ends when every pose has been
\* rendered.
AllRendered == rgb_frames >= cfg.n_poses

\* Lines 100-104: one render_image per pose, then makedirs and img_cnt = 0.
RenderFrames ==
    /\ pc = "render_loop"
    /\ \/ /\ ~AllRendered
          /\ rgb_frames' = rgb_frames + 1
          /\ ops' = Append(ops, Op("render_image", rgb_frames))
          /\ UNCHANGED <<pc, img_cnt, renders>>
       \/ /\ AllRendered
          /\ ops' = Append(ops, Op("makedirs", 0))
          /\ renders' = [renders EXCEPT ![step].dir = TRUE]
          /\ img_cnt' = 0
          /\ pc' = "imwrite"
          /\ UNCHANGED rgb_frames
    /\ UNCHANGED <<cfg, continue_training, runs, loss_val, psnr,
                   it, step, start_step, params, optim,
                   sched, mode, dataPos, evalPos, model_info>>
    /\ UNCHANGED <<latest, snaps, logDir, trainDir, log>>
    /\ UNCHANGED histRest

\* Lines 105-108: one imwrite per frame, then mimwrite of the video.
WriteFrames ==
    /\ pc = "imwrite"
    /\ \/ /\ img_cnt < rgb_frames
          /\ renders' = [renders EXCEPT ![step].images = @ \cup {img_cnt}]
          /\ img_cnt' = img_cnt + 1
          /\ ops' = Append(ops, Op("imwrite", img_cnt))
          /\ UNCHANGED <<pc, didRender>>
       \/ /\ img_cnt >= rgb_frames
          /\ renders' = [renders EXCEPT ![step].video = TRUE]
          /\ ops' = Append(ops, Op("mimwrite", 0))
          /\ didRender' = TRUE
          /\ pc' = "iterend"
          /\ UNCHANGED img_cnt
    /\ UNCHANGED <<cfg, continue_training, runs, loss_val, psnr,
                   it, step, start_step, params, optim,
                   sched, mode, dataPos, evalPos, model_info, rgb_frames>>
    /\ UNCHANGED <<latest, snaps, logDir, trainDir, log>>
    /\ UNCHANGED <<didSave, lastSnap, latestEver, lastArgs, evalEntry, iters, prevRun>>

\* The end of the loop body: back to line 63.
IterEnd ==
    /\ pc = "iterend"
    /\ pc' = "loop"
    /\ UNCHANGED <<cfg, continue_training, runs>>
    /\ UNCHANGED procVars
    /\ UNCHANGED fileVars
    /\ UNCHANGED histVars

LivePcs == {"load", "setup", "loop", "fetch", "forward", "optstep", "schedstep", "log",
            "savecheck", "save1", "save1w", "save2", "save2w", "eval", "eval_fwd",
            "eval_ret", "eval_log", "rendercheck", "render", "render_loop",
            "imwrite", "iterend"}

\* A call raises, or the process is terminated: nothing is caught in
\* train_model, the process ends and its memory is gone; the files stay as
\* they are.
Fail ==
    /\ pc \in LivePcs
    /\ pc' = "aborted"
    /\ Fresh
    /\ UNCHANGED <<cfg, continue_training, runs, lastSnap, latestEver, lastArgs,
                   prevRun>>
    /\ UNCHANGED fileVars

Next ==
    \/ Start \/ Load \/ Setup \/ LoopHead
    \/ Fetch \/ ForwardBackward \/ OptimizerStep \/ SchedulerStep \/ LogTrain
    \/ SaveCheck \/ SnapOpen \/ SnapWrite \/ LatestOpen \/ LatestWrite
    \/ EvalEnter \/ EvalForward \/ EvalReturn \/ LogEval
    \/ RenderCheck \/ RenderEnter \/ RenderFrames \/ WriteFrames
    \/ IterEnd \/ Fail

Spec == Init /\ [][Next]_vars

\* eval_model called on its own, in any mode and at any position of the
\* evaluation iterator: the caller's state is drawn from small sets.
EvalConfigs == {c \in Configs : c.do_eval /\ c.save_every = 1
                                  /\ c.render_every = 1 /\ c.n_poses = 1}

EvalInit ==
    /\ cfg \in EvalConfigs
    /\ continue_training = FALSE
    /\ runs = 1
    /\ pc = "eval"
    /\ step \in Steps
    /\ it = step + 1
    /\ start_step = 0
    /\ params \in 0..MaxSteps
    /\ optim \in 0..MaxSteps
    /\ sched \in 0..MaxSteps
    /\ mode \in {"train", "eval"}
    /\ dataPos = 0
    /\ evalPos \in 0..MaxSteps
    /\ model_info = NoFile
    /\ rgb_frames = 0 /\ img_cnt = 0
    /\ loss_val = 0 /\ psnr = NoPsnr
    /\ latest = NoFile
    /\ snaps = [s \in Steps |-> NoFile]
    /\ renders = [s \in Steps |-> NoRender]
    /\ logDir = TRUE /\ trainDir = TRUE
    /\ log = <<>>
    /\ didSave = FALSE /\ didRender = FALSE
    /\ lastSnap = -1
    /\ latestEver = FALSE
    /\ lastArgs = NoArgs
    /\ evalEntry = NoEntry
    /\ ops = << >> /\ iters = 0
    /\ prevRun = NoPrevRun

EvalNext == EvalEnter \/ EvalForward \/ EvalReturn

SpecEval == EvalInit /\ [][EvalNext]_vars

\* LogTrain on its own: lines 76-81 applied to any per-level PSNR array
\* the loss function may return, for any step.
PsnrArrays == UNION {[1..n -> 0..MaxPsnr] : n \in 1..MaxLevels}

PsnrInit ==
    /\ cfg \in EvalConfigs
    /\ continue_training = FALSE
    /\ runs = 1
    /\ pc = "log"
    /\ step \in Steps
    /\ it = step + 1
    /\ start_step = 0
    /\ params = step + 1 /\ optim = step + 1 /\ sched = step + 1
    /\ mode = "train"
    /\ dataPos = step + 1
    /\ evalPos = 0
    /\ model_info = NoFile
    /\ rgb_frames = 0 /\ img_cnt = 0
    /\ loss_val \in 0..MaxPsnr
    /\ psnr \in PsnrArrays
    /\ latest = NoFile
    /\ snaps = [s \in Steps |-> NoFile]
    /\ renders = [s \in Steps |-> NoRender]
    /\ logDir = TRUE /\ trainDir = TRUE
    /\ log = <<>>
    /\ didSave = FALSE /\ didRender = FALSE
    /\ lastSnap = -1
    /\ latestEver = FALSE
    /\ lastArgs = NoArgs
    /\ evalEntry = NoEntry
    /\ ops = << >> /\ iters = 1
    /\ prevRun = NoPrevRun

PsnrNext == LogTrain

SpecPsnr == PsnrInit /\ [][PsnrNext]_vars

SavingPcs == {"save1", "save1w", "save2", "save2w", "eval", "eval_fwd", "eval_ret",
              "eval_log"}
RenderingPcs == {"render", "render_loop", "imwrite"}

\* C1: in every iteration SAVING happens iff step mod save_every = 0 and
\* RENDERING happens iff step mod render_every = 0, each independently of
\* the other: the process is inside SAVING (RENDERING) only in a step whose
\* modulus is 0, and at the end of the iteration each has completed exactly
\* when its modulus is 0.
C1_Cadence ==
    /\ pc \in SavingPcs => step % cfg.save_every = 0
    /\ pc \in RenderingPcs => step % cfg.render_every = 0
    /\ pc = "iterend" =>
          /\ didSave <=> (step % cfg.save_every = 0)
          /\ didRender <=> (step % cfg.render_every = 0)

\* C1 witness: an iteration ends having saved and not rendered.
C1_Witness ==
    pc = "iterend" /\ didSave /\ ~didRender /\ step % cfg.render_every # 0

\* C2: whenever a run is resumed, the step recorded in model.pt is the step
\* of the most recently written snapshot model_<S>.pt.
C2_LatestIsLastSnapshot ==
    (pc = "load" /\ continue_training /\ lastSnap # -1)
        => (latest.kind = "full" /\ latest.step = lastSnap)

\* C3: once model.pt has been written completely, a run that halts on a
\* failure leaves in model.pt the complete checkpoint of one successful
\* save_model call.
C3_LatestSurvivesFailure ==
    (pc = "aborted" /\ latestEver)
        => latest = ModelInfo(lastArgs.state_dict, lastArgs.optimizer, lastArgs.step)

\* C4: a checkpoint saved at step S and loaded by the resume path yields
\* start_step = S and the parameters and optimizer state that were passed
\* to save_model.
C4_RoundTrip ==
    (pc = "setup" /\ continue_training)
        => /\ start_step = lastArgs.step
           /\ params = lastArgs.state_dict
           /\ optim = lastArgs.optimizer

\* C4 witness: a run has resumed from a checkpoint of a step after 0.
C4_Witness ==
    pc = "setup" /\ continue_training /\ start_step > 0 /\ params > 0

\* C5: with continue_training set and model.pt missing, the run aborts in
\* INITIALIZING: the next state is the aborted one, no batch is fetched, no
\* update is made, and no file or directory of the log directory changes.
C5_MissingCheckpointAborts ==
    [][(pc = "load" /\ continue_training /\ latest.kind = "absent")
          => /\ pc' = "aborted"
             /\ dataPos' = 0 /\ params' = 0 /\ optim' = 0
             /\ UNCHANGED fileVars]_vars

\* C5 witness: a resume without model.pt has aborted and the train
\* directory of the previous run is still there with its events.
C5_Witness ==
    /\ pc = "aborted" /\ continue_training /\ latest.kind = "absent"
    /\ runs > 1 /\ trainDir /\ Len(log) > 0

\* C6: once both writes of a save step S are done, model_<S>.pt and
\* model.pt hold the same content: step S and the parameters and optimizer
\* state the model has after the update of step S.
C6_SameContent ==
    didSave =>
        /\ snaps[step] = latest
        /\ latest.kind = "full"
        /\ latest.step = step
        /\ latest.state_dict = params
        /\ latest.optimizer = optim

\* C6 witness: SAVING of a step after 0 has just completed.
C6_Witness ==
    didSave /\ step > 0 /\ pc \in {"eval", "rendercheck"} /\ params > 1

\* C7: when train/lr is logged for step s the schedule has been advanced
\* exactly s + 1 times, in a fresh run and in a resumed one.
C7_ScheduleFollowsStep ==
    pc = "log" => sched = step + 1

\* C8: a first run on an empty log directory with max_steps = 1,
\* save_every = 1, render_every = 1, no evaluation and one pose ends with
\* model_0.pt and model.pt, image 0 and the video under step_0/, and five
\* scalar events, all of step 0.
C8_EndToEnd ==
    (/\ pc = "done" /\ runs = 1 /\ ~continue_training
     /\ cfg.max_steps = 1 /\ cfg.save_every = 1 /\ cfg.render_every = 1
     /\ ~cfg.do_eval /\ cfg.n_poses = 1)
        => /\ latest.kind = "full" /\ latest.step = 0
           /\ snaps[0] = latest
           /\ \A s \in Steps \ {0} : snaps[s] = NoFile
           /\ renders[0] = [dir |-> TRUE, images |-> {0}, video |-> TRUE]
           /\ \A s \in Steps \ {0} : renders[s] = NoRender
           /\ Len(log) = 5
           /\ \A i \in 1..Len(log) : log[i].step = 0

\* C8 witness: that run has reached DONE.
C8_Witness ==
    /\ pc = "done" /\ runs = 1 /\ ~continue_training
    /\ cfg.max_steps = 1 /\ cfg.save_every = 1 /\ cfg.render_every = 1
    /\ ~cfg.do_eval /\ cfg.n_poses = 1
    /\ renders[0].video

AfterRenderPcs == {"iterend", "loop", "done"}

\* C9 as stated: when the RENDERING block of a step has completed, before
\* the next iteration starts and at DONE, the model is in training mode.
C9_TrainModeAfterRender ==
    (pc \in AfterRenderPcs /\ didRender) => mode = "train"

\* C9 amended: RENDERING runs in inference mode and leaves the model in
\* inference mode when it completes, also at DONE; the model.train() that
\* starts the next iteration switches back, so the forward pass and the
\* update of every step run in training mode.
C9_ModeRestoredByNextStep ==
    /\ pc \in {"render_loop", "imwrite"} => mode = "eval"
    /\ (pc \in AfterRenderPcs /\ didRender) => mode = "eval"
    /\ pc \in {"forward", "optstep", "schedstep", "log"} => mode = "train"

\* C9 witness: a step that follows a rendered step is in its forward pass.
C9_Witness ==
    pc = "forward" /\ step > start_step /\ (step - 1) % cfg.render_every = 0

\* C10: eval_model runs its forward pass in inference mode and returns in
\* training mode whatever the mode at entry, having consumed one batch of
\* the evaluation iterator and changed neither parameters, optimizer
\* state, schedule nor step.
C10_EvalModel ==
    /\ pc \in {"eval_fwd", "eval_ret"} => mode = "eval"
    /\ pc = "eval_ret" => evalPos = evalEntry.evalPos + 1
    /\ pc = "eval_log" =>
          /\ mode = "train"
          /\ evalPos = evalEntry.evalPos + 1
          /\ params = evalEntry.params
          /\ optim = evalEntry.optim
          /\ sched = evalEntry.sched
          /\ step = evalEntry.step

\* C10 witness: eval_model, entered in inference mode, has returned.
C10_Witness ==
    pc = "eval_log" /\ evalEntry.mode = "eval" /\ evalEntry.evalPos > 0

EvalPcs == {"eval", "eval_fwd", "eval_ret", "eval_log"}
EvalTags == {"eval/coarse_psnr", "eval/fine_psnr", "eval/avg_psnr"}

\* The tags of the eval scalars logged for step s, in the order logged.
EvalTagsOf(s) ==
    LET sel == SelectSeq(log, LAMBDA e : e.tag \in EvalTags /\ e.step = s)
    IN [i \in 1..Len(sel) |-> sel[i].tag]

\* C11: EVALUATING runs in step s iff s mod save_every = 0 and evaluation
\* data is configured; it starts only after model_<s>.pt and model.pt have
\* been written for s, and by the end of the iteration it has logged the
\* three eval scalars keyed by s, once each; in any other step no eval
\* scalar is logged for s.
C11_Evaluating ==
    /\ pc \in EvalPcs =>
          /\ step % cfg.save_every = 0 /\ cfg.do_eval
          /\ snaps[step].kind = "full" /\ snaps[step].step = step
          /\ latest.kind = "full" /\ latest.step = step
          /\ didSave
    /\ pc \in {"rendercheck", "iterend"} =>
          EvalTagsOf(step) =
              IF step % cfg.save_every = 0 /\ cfg.do_eval
              THEN <<"eval/coarse_psnr", "eval/fine_psnr", "eval/avg_psnr">>
              ELSE <<>>

\* C11 witness: a save step after 0 ends with its three eval scalars logged.
C11_Witness ==
    /\ pc = "iterend" /\ step > 0 /\ cfg.do_eval /\ didSave
    /\ Len(EvalTagsOf(step)) = 3

\* The events of a are kept, in place, at the head of b.
IsPrefix(a, b) == Len(a) <= Len(b) /\ SubSeq(b, 1, Len(a)) = a

\* For each tag the step keys appear in strictly increasing order.
StepsIncrease(l) ==
    \A i \in 1..Len(l) : \A j \in 1..Len(l) :
        (i < j /\ l[i].tag = l[j].tag) => l[i].step < l[j].step

\* C12 as stated: over any sequence of runs on the same log directory no
\* recorded event is ever removed or replaced, and for each tag the step
\* keys are strictly increasing.
C12_AppendOnlyAcrossRuns ==
    [][IsPrefix(log, log') /\ StepsIncrease(log')]_vars

\* C12 amended: within one run the stream only grows and for each tag the
\* step keys are strictly increasing; the set-up of every run, resumed or
\* not, deletes the events of the earlier runs and starts with none.
C12_AppendOnlyWithinRun ==
    [][\/ IsPrefix(log, log') /\ StepsIncrease(log')
       \/ pc = "setup" /\ log' = <<>>]_vars

\* C12 witness: a resumed run has logged the events of two steps.
C12_Witness ==
    runs > 1 /\ continue_training /\ Len(log) >= 10 /\ pc = "savecheck"

\* The loss and PSNR events of a log: all but train/lr.
LossPsnrEvents(l) == SelectSeq(l, LAMBDA e : e.tag # "train/lr")

\* C13: two runs of train_model from a fresh start with the same config,
\* each to DONE, log the same sequence of loss and PSNR events: same tags,
\* steps and values in the same order.
C13_Deterministic ==
    (pc = "done" /\ ~continue_training /\ prevRun.fresh_done)
        => LossPsnrEvents(log) = LossPsnrEvents(prevRun.log)

\* C13 witness: the second of two fresh runs with max_steps = 2 is done.
C13_Witness ==
    /\ pc = "done" /\ ~continue_training /\ prevRun.fresh_done
    /\ cfg.max_steps = 2 /\ Len(LossPsnrEvents(log)) >= 8

\* The value of the last event logged with the tag.
Logged(tag) ==
    LET sel == SelectSeq(log, LAMBDA e : e.tag = tag)
    IN sel[Len(sel)].val

\* The fraction f is the sum n over the count d.
IsFraction(f, n, d) == f.num * d = n * f.den /\ (f.den = 0 <=> d = 0)

\* C14: for the step just logged, train/avg_psnr is the mean over the whole
\* per-level array, train/coarse_psnr the mean of all entries but the last
\* and train/fine_psnr the last entry.
C14_PsnrAggregation ==
    pc = "savecheck" =>
        /\ IsFraction(Logged("train/avg_psnr"), SumSeq(psnr), Len(psnr))
        /\ IsFraction(Logged("train/coarse_psnr"),
                      SumSeq(psnr) - psnr[Len(psnr)], Len(psnr) - 1)
        /\ IsFraction(Logged("train/fine_psnr"), psnr[Len(psnr)], 1)

\* C14 witness: with two coarse levels the logged mean differs from the
\* average of the logged coarse mean and the logged fine value.
C14_Witness ==
    /\ pc = "savecheck" /\ Len(psnr) = 3
    /\ LET a == Logged("train/avg_psnr")
           c == Logged("train/coarse_psnr")
           f == Logged("train/fine_psnr")
       IN a.num * 2 * c.den * f.den # a.den * (c.num * f.den + f.num * c.den)

\* The operations of one iteration as the claim orders them.
SteppingOps ==
    << Op("fetch", 0), Op("forward", 0), Op("loss", 0), Op("zero_grad", 0),
       Op("backward", 0), Op("optimizer_step", 0), Op("scheduler_step", 0),
       Op("log_train", 0) >>

SavingOps(s) ==
    IF s % cfg.save_every = 0
    THEN << Op("save_snapshot", 0), Op("save_latest", 0) >>
         \o (IF cfg.do_eval THEN << Op("eval", 0), Op("log_eval", 0) >> ELSE << >>)
    ELSE << >>

RenderingOps(s) ==
    IF s % cfg.render_every = 0
    THEN [i \in 1..cfg.n_poses |-> Op("render_image", i - 1)]
         \o << Op("makedirs", 0) >>
         \o [i \in 1..cfg.n_poses |-> Op("imwrite", i - 1)]
         \o << Op("mimwrite", 0) >>
    ELSE << >>

\* C15: every iteration fetches one batch, runs the forward pass, computes
\* the loss, zeroes the gradients, backpropagates, steps the optimizer,
\* steps the schedule and appends the train scalars, once each and in this
\* order; SAVING (with EVALUATING) comes after all of them and RENDERING
\* after SAVING: at any moment the operations done are a prefix of that
\* order, and at the end of the iteration they are all of it.
C15_StepOrder ==
    iters > 0 =>
        /\ IsPrefix(ops, SteppingOps \o SavingOps(step) \o RenderingOps(step))
        /\ pc \in {"iterend", "loop", "done"} =>
              ops = SteppingOps \o SavingOps(step) \o RenderingOps(step)

\* C15 witness: an iteration that saved, evaluated and rendered has ended.
C15_Witness ==
    pc = "iterend" /\ step > 0 /\ didSave /\ didRender /\ cfg.do_eval
    /\ Len(ops) > 12

RenderNames == {"render_image", "makedirs", "imwrite", "mimwrite"}

\* The rendering operations of this iteration follow the order: every pose
\* rendered, in pose order, then the directory, then image 0 .. N-1 in
\* order, then the video.
RenderOrder ==
    LET done == SelectSeq(ops, LAMBDA o : o[1] \in RenderNames)
    IN /\ IsPrefix(done, [i \in 1..cfg.n_poses |-> Op("render_image", i - 1)]
                         \o << Op("makedirs", 0) >>
                         \o [i \in 1..cfg.n_poses |-> Op("imwrite", i - 1)]
                         \o << Op("mimwrite", 0) >>)
       /\ pc = "imwrite" => rgb_frames = cfg.n_poses
       /\ (runs = 1 /\ pc \in RenderingPcs /\ renders[step].images # {})
              => rgb_frames = cfg.n_poses
       /\ runs = 1 => \A s \in Steps :
              renders[s].video => renders[s].images = 0..(cfg.n_poses - 1)

\* C16: in RENDERING all N images are rendered in pose order before any
\* file is written, image 0 .. N-1 are then written in that order and the
\* video last; a failure during RENDERING aborts the run and writes
\* nothing more, so no video is written in that step.
C16_RenderOrder ==
    [][/\ RenderOrder'
       /\ (pc \in RenderingPcs /\ pc' = "aborted") => renders' = renders]_vars

\* C16 witness: a run has been aborted after the images of a step with two
\* poses were written and before its video.
C16_Witness ==
    /\ pc = "aborted" /\ runs = 1 /\ cfg.n_poses = 2
    /\ \E s \in Steps : renders[s].images = {0, 1} /\ ~renders[s].video

\* train_model is called by a caller that may pass another max_steps and
\* save_every than the run before: lines 16-47.
StartLive ==
    /\ pc \in {"idle", "done", "aborted"}
    /\ runs < MaxRuns
    /\ runs' = runs + 1
    /\ \E c \in BOOLEAN : continue_training' = c
    /\ \E n \in 0..MaxSteps, e \in 1..MaxEvery :
          cfg' = [cfg EXCEPT !.max_steps = n, !.save_every = e]
    /\ Fresh
    /\ prevRun' = IF pc = "done" /\ ~continue_training
                  THEN [fresh_done |-> TRUE, log |-> log]
                  ELSE NoPrevRun
    /\ pc' = "load"
    /\ UNCHANGED <<lastSnap, latestEver, lastArgs>>
    /\ UNCHANGED fileVars

\* The steps of a run in which every call returns.
RunStep ==
    \/ Load \/ Setup \/ LoopHead
    \/ Fetch \/ ForwardBackward \/ OptimizerStep \/ SchedulerStep \/ LogTrain
    \/ SaveCheck \/ SnapOpen \/ SnapWrite \/ LatestOpen \/ LatestWrite
    \/ EvalEnter \/ EvalForward \/ EvalReturn \/ LogEval
    \/ RenderCheck \/ RenderEnter \/ RenderFrames \/ WriteFrames
    \/ IterEnd

NextLive == StartLive \/ RunStep

\* The configs whose iterations take the longest path: evaluation at every
\* save and rendering at every step.
LiveConfigs == {c \in Configs : c.do_eval /\ c.render_every = 1}

InitLive == Init /\ cfg \in LiveConfigs

\* Runs in which no call raises and every call returns: the interpreter
\* keeps executing the next statement.
SpecLive == InitLive /\ [][NextLive]_vars /\ WF_vars(RunStep)

MaxOf(S) == CHOOSE x \in S : \A y \in S : y <= x

\* The multiples of save_every in [start_step, max_steps).
RangeMultiples ==
    {s \in start_step..(cfg.max_steps - 1) : s % cfg.save_every = 0}

LoopBodyPcs == LivePcs \ {"load", "setup", "loop"}

C17_Counting ==
    /\ pc \in LoopBodyPcs => step = start_step + iters - 1 /\ it = step + 1
    /\ pc = "done" =>
          /\ iters = (IF cfg.max_steps > start_step
                      THEN cfg.max_steps - start_step ELSE 0)
          /\ RangeMultiples # {} =>
                latest.kind = "full" /\ latest.step = MaxOf(RangeMultiples)

C17_NoFinalSave ==
    /\ (pc # "done" /\ pc' = "done") => latest' = latest /\ snaps' = snaps
    /\ (pc \in LivePcs \ {"load"} /\ RangeMultiples = {})
          => latest' = latest /\ snaps' = snaps

\* C17: when every call returns, train_model started at start_step reaches
\* DONE after exactly max(0, max_steps - start_step) iterations, the step
\* advancing by 1 each iteration; nothing is saved on reaching DONE, so at
\* DONE model.pt holds the largest multiple of save_every in
\* [start_step, max_steps), and a run whose range holds no such multiple
\* writes no checkpoint at all.
C17_ReachesDone ==
    /\ [](C17_Counting)
    /\ [][C17_NoFinalSave]_vars
    /\ (pc = "setup") ~> (pc = "done")

\* C17 witness: a resumed run that started above step 0 has reached DONE
\* after at least one iteration and a save.
C17_Witness ==
    /\ pc = "done" /\ runs = 2 /\ start_step > 0 /\ iters > 0
    /\ latest.kind = "full" /\ latest.step > start_step

\* C18: over a fresh start followed by halts and resumes from model.pt every
\* step index is trained exactly once: when step s has completed the
\* parameters result from exactly s + 1 optimizer updates, and the
\* parameters held in model_<s>.pt are those after s + 1 updates, whichever
\* run wrote the file last.
C18_TrainedOnce ==
    /\ pc = "iterend" => params = step + 1
    /\ \A s \in Steps : snaps[s].kind = "full" => snaps[s].state_dict = s + 1
====
